---- MODULE Spec2Model ----
(***************************************************************************)
(* A model of the falling-sand simulator in src/src/main.rs.               *)
(*                                                                         *)
(* Numbers.  The program computes in f32.  Here an f32 value is a          *)
(* fixed-point number: the integer n stands for n / Q.  Additions and      *)
(* subtractions are exact; every multiplication, division and square root  *)
(* is the exact operation rounded to the nearest multiple of 1 / Q, as an  *)
(* f32 operation is the exact operation rounded to the nearest f32.  Q is  *)
(* chosen so that every constant of the species table is a whole number    *)
(* of units.                                                               *)
(*                                                                         *)
(* Vectors are pairs <<x, y>>: the program's v[0] is v[1] here and its     *)
(* v[1] is v[2].  A grid location is <<x, y>> (column, row), 0-based.      *)
(***************************************************************************)
EXTENDS Integers, Sequences, FiniteSets

VARIABLES
    cols,           \* Board.grid.cols()
    rows,           \* Board.grid.rows()
    grid,           \* Board.grid: [location -> Cell]
    pc,             \* where the program is
    steps,          \* calls of step() made so far by the driver's loop
    vpass,          \* step(): velocity passes done (the counter of 0..4)
    mpass,          \* step(): motion passes done (the counter of 0..10)
    ret,            \* what the last motion_step() returned
    idx,            \* the position of a row-major loop, 1-based
    no_work_done    \* motion_step(): its local flag

vars == <<cols, rows, grid, pc, steps, vpass, mpass, ret, idx, no_work_done>>

-----------------------------------------------------------------------------
(* Bounds of the model *)

MaxCols == 2
MaxRows == 3
MaxSteps == 1
FricDim == 3

(* Program constants *)

VelocityPasses == 4
MotionCap == 10

-----------------------------------------------------------------------------
(* Fixed-point arithmetic *)

Q == 2 * 1000

Abs(a) == IF a < 0 THEN -a ELSE a

RoundDiv(n, d) ==
    IF n >= 0 THEN (n + d \div 2) \div d ELSE -((-n + d \div 2) \div d)

FMul(a, b) == RoundDiv(a * b, Q)

FDiv(a, b) == RoundDiv(a * Q, b)

\* The decimal literal n / d
Dec(n, d) == (n * Q) \div d

\* r * r, saturating where the product leaves the 32-bit integers
Sq(r) == IF r > 46340 THEN 2147483647 ELSE r * r

\* The largest k in 0..35 with (base + k * step)^2 <= n
SqrtDigit(n, base, step) ==
    CHOOSE k \in 0 .. 35 :
        /\ Sq(base + k * step) <= n
        /\ k = 35 \/ Sq(base + (k + 1) * step) > n

\* The integer square root of n, one base-36 digit at a time
FloorSqrt(n) ==
    LET r1 == 1296 * SqrtDigit(n, 0, 1296)
        r2 == r1 + 36 * SqrtDigit(n, r1, 36)
    IN r2 + SqrtDigit(n, r2, 1)

\* f32::sqrt: the square root of a / Q, in units of 1 / Q
FSqrt(a) ==
    LET n == a * Q
        r == FloorSqrt(n)
    IN IF n - r * r > r THEN r + 1 ELSE r

-----------------------------------------------------------------------------
(* vecmath *)

vec2_add(a, b) == <<a[1] + b[1], a[2] + b[2]>>

vec2_sub(a, b) == <<a[1] - b[1], a[2] - b[2]>>

vec2_scale(a, t) == <<FMul(a[1], t), FMul(a[2], t)>>

vec2_dot(a, b) == FMul(a[1], b[1]) + FMul(a[2], b[2])

vec2_square_len(a) == FMul(a[1], a[1]) + FMul(a[2], a[2])

vec2_len(a) == FSqrt(vec2_square_len(a))

vec2_inv_len(a) == FDiv(Q, vec2_len(a))

vec2_normalized(a) == vec2_scale(a, vec2_inv_len(a))

Zero2 == <<0, 0>>

\* offset[0] as f32, offset[1] as f32
ToF(o) == <<o[1] * Q, o[2] * Q>>

-----------------------------------------------------------------------------
(* Lattice utilities *)

neighbors(loc) ==
    <<vec2_add(<<1, 0>>, loc), vec2_add(<<0, 1>>, loc),
      vec2_add(<<-1, 0>>, loc), vec2_add(<<0, -1>>, loc)>>

\* Mutant: the x-axis wins a tie
velocity_to_offset_ge(vel) ==
    IF Abs(vel[1]) >= Abs(vel[2])
    THEN (IF vel[1] > 0 THEN <<1, 0>> ELSE <<-1, 0>>)
    ELSE (IF vel[2] > 0 THEN <<0, 1>> ELSE <<0, -1>>)

velocity_to_offset(vel) ==
    IF Abs(vel[1]) > Abs(vel[2])
    THEN (IF vel[1] > 0 THEN <<1, 0>> ELSE <<-1, 0>>)
    ELSE (IF vel[2] > 0 THEN <<0, 1>> ELSE <<0, -1>>)

cap_vec(vec) ==
    IF vec2_square_len(vec) > Q THEN vec2_normalized(vec) ELSE vec

\* grid_get / grid_get_mut return Some exactly for these locations
Present(loc) ==
    /\ loc[1] >= 0 /\ loc[1] < cols
    /\ loc[2] >= 0 /\ loc[2] < rows

Locs == (0 .. cols - 1) \X (0 .. rows - 1)

NumCells == rows * cols

\* Mutant: the loop runs from the last slot to the first
RowMajorReverse(i) ==
    <<(rows * cols - i) % cols, (rows * cols - i) \div cols>>

\* The i-th location (1-based) of "for y in 0..rows { for x in 0..cols"
RowMajor(i) == <<(i - 1) % cols, (i - 1) \div cols>>

-----------------------------------------------------------------------------
(* Species *)

Species == {"Air", "Sand", "Water"}

get_subgrid_magnitude(s) ==
    CASE s = "Air" -> 0
      [] s = "Sand" -> Dec(2, 10)
      [] s = "Water" -> Dec(4, 10)

get_solidity(s) ==
    CASE s = "Air" -> Dec(1, 10)
      [] s = "Sand" -> Dec(1, 1)
      [] s = "Water" -> Dec(7, 10)

get_mass(s) ==
    CASE s = "Air" -> Dec(1, 10)
      [] s = "Sand" -> Dec(25, 10)
      [] s = "Water" -> Dec(1, 1)

get_gravity(s) ==
    CASE s = "Air" -> <<0, 0>>
      [] s = "Sand" -> <<0, Dec(19, 10)>>
      [] s = "Water" -> <<0, Dec(19, 10)>>

get_friction_coeff(s) ==
    CASE s = "Air" -> Dec(20, 100)
      [] s = "Sand" -> Dec(8, 100)
      [] s = "Water" -> Dec(5, 100)

get_elasticity(s) ==
    CASE s = "Air" -> Dec(8, 10)
      [] s = "Sand" -> 0
      [] s = "Water" -> Dec(2, 10)

-----------------------------------------------------------------------------
(* Cell *)

Cell(v, m, s) == [velocity |-> v, motion |-> m, species |-> s]

DefaultCell == Cell(Zero2, Zero2, "Air")

get_subgrid_offset(cell) ==
    vec2_scale(cap_vec(cell.motion), get_subgrid_magnitude(cell.species))

\* Board::new(cols, rows)
NewGrid(c, r) == [loc \in (0 .. c - 1) \X (0 .. r - 1) |-> DefaultCell]

-----------------------------------------------------------------------------
(* gravity_step *)

gravity_step(g) ==
    [loc \in DOMAIN g |->
        [g[loc] EXCEPT !.velocity =
            vec2_add(g[loc].velocity, get_gravity(g[loc].species))]]

-----------------------------------------------------------------------------
(* velocity_step: the two sub-steps of one visit of its loop *)

\* Mutant: the collision mass leaves out solidity
CollisionMassNoSolidity(s) == get_mass(s)

CollisionMass(s) == FMul(get_mass(s), get_solidity(s))

\* 1. Calculate and apply pushing
Push(g, loc) ==
    LET cell == g[loc]
        offset == velocity_to_offset(cell.velocity)
        rel_pos == ToF(offset)
        dest == vec2_add(loc, offset)
        some == Present(dest)
        our_mass == CollisionMass(cell.species)
        their_mass == IF some THEN CollisionMass(g[dest].species) ELSE Dec(1, 1)
        their_momentum ==
            IF some THEN vec2_scale(g[dest].velocity, their_mass) ELSE Zero2
        system_momentum ==
            vec2_add(vec2_scale(cell.velocity, our_mass), their_momentum)
        system_velocity ==
            vec2_scale(system_momentum, FDiv(Dec(1, 1), our_mass + their_mass))
        subgrid_offset ==
            vec2_sub(IF some THEN get_subgrid_offset(g[dest]) ELSE Zero2,
                     get_subgrid_offset(cell))
        impact_dir == vec2_normalized(vec2_add(rel_pos, subgrid_offset))
        elasticity ==
            FMul(get_elasticity(cell.species),
                 IF some THEN get_elasticity(g[dest].species) ELSE Dec(2, 10))
        our_impact ==
            vec2_scale(impact_dir,
                FMul(vec2_dot(impact_dir, vec2_sub(cell.velocity, system_velocity)),
                     -(Dec(1, 1) + elasticity)))
        their_impact ==
            IF some
            THEN vec2_scale(impact_dir,
                    FMul(vec2_dot(impact_dir,
                                  vec2_sub(g[dest].velocity, system_velocity)),
                         -(Dec(1, 1) + elasticity)))
            ELSE Zero2
        g1 == [g EXCEPT ![loc].velocity = vec2_add(cell.velocity, our_impact)]
    IN IF some
       THEN [g1 EXCEPT ![dest].velocity = vec2_add(g1[dest].velocity, their_impact)]
       ELSE g1

\* The heat a cell sheds to each neighbour
Heat(cell) ==
    vec2_scale(cell.velocity,
        FMul(FDiv(get_friction_coeff(cell.species), Dec(4, 1)),
             get_mass(cell.species)))

\* Mutant: the heat is added to a neighbour undivided by the neighbour's mass
RECURSIVE FrictionNeighborsNoMass(_, _, _, _)
FrictionNeighborsNoMass(g, ns, heat, k) ==
    IF k > Len(ns) THEN g
    ELSE LET n == ns[k]
             g1 == IF Present(n)
                   THEN [g EXCEPT ![n].velocity = vec2_add(g[n].velocity, heat)]
                   ELSE g
         IN FrictionNeighborsNoMass(g1, ns, heat, k + 1)

RECURSIVE FrictionNeighbors(_, _, _, _)
FrictionNeighbors(g, ns, heat, k) ==
    IF k > Len(ns) THEN g
    ELSE LET n == ns[k]
             g1 == IF Present(n)
                   THEN [g EXCEPT ![n].velocity =
                            vec2_add(g[n].velocity,
                                vec2_scale(heat,
                                    FDiv(Dec(1, 1), get_mass(g[n].species))))]
                   ELSE g
         IN FrictionNeighbors(g1, ns, heat, k + 1)

\* 2. Calculate and apply friction
Friction(g, loc) ==
    LET cell == g[loc]
        friction_coeff == get_friction_coeff(cell.species)
        heat == Heat(cell)
        g1 == [g EXCEPT ![loc].velocity =
                  vec2_scale(cell.velocity, Dec(1, 1) - friction_coeff)]
    IN FrictionNeighbors(g1, neighbors(loc), heat, 1)

-----------------------------------------------------------------------------
(* copy_velocity_to_motion *)

\* Mutant: air keeps its motion
copy_velocity_to_motion_keep_air(g) ==
    [loc \in DOMAIN g |->
        [g[loc] EXCEPT !.motion =
            vec2_add(cap_vec(g[loc].motion), g[loc].velocity)]]

copy_velocity_to_motion(g) ==
    [loc \in DOMAIN g |->
        IF g[loc].species = "Air"
        THEN [g[loc] EXCEPT !.motion = Zero2]
        ELSE [g[loc] EXCEPT !.motion =
                 vec2_add(cap_vec(g[loc].motion), g[loc].velocity)]]

-----------------------------------------------------------------------------
(* motion_step: one visit, and the pass *)

\* The visit does not "continue"
Acts(g, loc) == ~(vec2_square_len(g[loc].motion) < Dec(1, 1))

\* Mutant: the destination gets a copy of the cell, which also stays
MotionVisitCopy(g, loc) ==
    LET offset == velocity_to_offset(g[loc].motion)
        dest == vec2_add(loc, offset)
        g0 == [g EXCEPT ![loc].motion = vec2_sub(g[loc].motion, ToF(offset))]
    IN IF Present(dest) THEN [g0 EXCEPT ![dest] = g0[loc]] ELSE g0

\* Mutant: the motion is not decremented
MotionVisitNoDecrement(g, loc) ==
    LET offset == velocity_to_offset(g[loc].motion)
        dest == vec2_add(loc, offset)
    IN IF Present(dest)
       THEN [g EXCEPT ![loc] = g[dest], ![dest] = g[loc]]
       ELSE g

\* Mutant: with no destination the cell taken out of its slot is not put back
MotionVisitLose(g, loc) ==
    LET offset == velocity_to_offset(g[loc].motion)
        dest == vec2_add(loc, offset)
        g0 == [g EXCEPT ![loc].motion = vec2_sub(g[loc].motion, ToF(offset))]
    IN IF Present(dest)
       THEN [g0 EXCEPT ![loc] = g0[dest], ![dest] = g0[loc]]
       ELSE [g0 EXCEPT ![loc] = DefaultCell]

MotionVisit(g, loc) ==
    LET offset == velocity_to_offset(g[loc].motion)
        rel_pos == ToF(offset)
        dest == vec2_add(loc, offset)
        \* cell.motion = vec2_sub(cell.motion, rel_pos)
        g0 == [g EXCEPT ![loc].motion = vec2_sub(g[loc].motion, rel_pos)]
        \* swap(&mut storage, cell), storage being Default
        storage1 == g0[loc]
        g1 == [g0 EXCEPT ![loc] = DefaultCell]
        \* if let Some(other) = ... { swap(&mut storage, other) }
        storage2 == IF Present(dest) THEN g1[dest] ELSE storage1
        g2 == IF Present(dest) THEN [g1 EXCEPT ![dest] = storage1] ELSE g1
    \* swap(&mut storage, cell)
    IN [g2 EXCEPT ![loc] = storage2]

\* Mutant: only a swap with an existing destination counts as work
RECURSIVE MotionFromSwapOnly(_, _)
MotionFromSwapOnly(st, i) ==
    IF i > NumCells THEN st
    ELSE LET loc == RowMajor(i)
             dest == vec2_add(loc, velocity_to_offset(st.grid[loc].motion))
         IN IF Acts(st.grid, loc)
            THEN MotionFromSwapOnly(
                    [grid |-> MotionVisit(st.grid, loc),
                     no_work_done |-> st.no_work_done /\ ~Present(dest)], i + 1)
            ELSE MotionFromSwapOnly(st, i + 1)

RECURSIVE MotionFrom(_, _)
MotionFrom(st, i) ==
    IF i > NumCells THEN st
    ELSE LET loc == RowMajor(i)
         IN IF Acts(st.grid, loc)
            THEN MotionFrom([grid |-> MotionVisit(st.grid, loc),
                             no_work_done |-> FALSE], i + 1)
            ELSE MotionFrom(st, i + 1)

motion_step(g) == MotionFrom([grid |-> g, no_work_done |-> TRUE], 1)

-----------------------------------------------------------------------------
(* The driver's set-up: main() builds the board and writes species, velocity *)
(* and motion of some cells before it starts calling step().                 *)

NoLoc == <<-1, -1>>

\* Cells the driver writes: a grain of sand or a drop of water, at rest with
\* main()'s small perturbation of motion, or thrown in some direction
FirstCells ==
    { Cell(Zero2, <<Dec(5, 100), -Dec(5, 100)>>, "Sand"),
      Cell(<<0, -Dec(16, 1)>>, Zero2, "Sand"),
      Cell(<<Dec(3, 1), 0>>, <<Dec(5, 100), Dec(5, 100)>>, "Sand"),
      Cell(<<Dec(25, 10), -Dec(19, 10)>>, Zero2, "Water"),
      Cell(<<0, Dec(4, 1)>>, Zero2, "Water") }

\* A second cell: water at rest, water thrown left, or air given velocity
\* and motion
SecondCells ==
    { Cell(Zero2, <<-Dec(5, 100), Dec(5, 100)>>, "Water"),
      Cell(<<-Dec(3, 1), -Dec(19, 10)>>, Zero2, "Water"),
      Cell(<<Dec(2, 1), 0>>, <<Dec(15, 10), 0>>, "Air") }

Placed(c, r, la, a, lb, b) ==
    [loc \in (0 .. c - 1) \X (0 .. r - 1) |->
        IF loc = la THEN a ELSE IF loc = lb THEN b ELSE DefaultCell]

Boards(c, r, As, Bs) ==
    LET L == ((0 .. c - 1) \X (0 .. r - 1)) \cup {NoLoc}
    IN { Placed(c, r, la, a, lb, b) : la \in L, a \in As, lb \in L, b \in Bs }

-----------------------------------------------------------------------------
(* Spec: the driver calls step().  gravity_step, copy_velocity_to_motion and   *)
(* each motion_step pass are one action each; velocity_step is one action per *)
(* sub-step of each visit of its loop.                                        *)

Init ==
    /\ cols \in 1 .. MaxCols
    /\ rows \in 1 .. MaxRows
    /\ grid \in Boards(cols, rows, FirstCells, SecondCells)
    /\ pc = "idle"
    /\ steps = 0
    /\ vpass = 0
    /\ mpass = 0
    /\ ret = FALSE
    /\ idx = 1
    /\ no_work_done = TRUE

\* step() is called and runs gravity_step
GravityStep ==
    /\ pc = "idle"
    /\ steps < MaxSteps
    /\ steps' = steps + 1
    /\ grid' = gravity_step(grid)
    /\ vpass' = 0
    /\ idx' = 1
    /\ pc' = "push"
    /\ UNCHANGED <<cols, rows, mpass, ret, no_work_done>>

\* velocity_step, one visit of its loop: 1. pushing
PushVisit ==
    /\ pc = "push"
    /\ grid' = Push(grid, RowMajor(idx))
    /\ pc' = "friction"
    /\ UNCHANGED <<cols, rows, steps, vpass, mpass, ret, idx, no_work_done>>

\* velocity_step, one visit of its loop: 2. friction; then the next visit, the
\* next pass of "for _ in 0..4", or copy_velocity_to_motion
FrictionVisit ==
    /\ pc = "friction"
    /\ grid' = Friction(grid, RowMajor(idx))
    /\ IF idx < NumCells
       THEN /\ idx' = idx + 1
            /\ pc' = "push"
            /\ vpass' = vpass
       ELSE /\ idx' = 1
            /\ vpass' = vpass + 1
            /\ pc' = IF vpass + 1 < VelocityPasses THEN "push" ELSE "copy"
    /\ UNCHANGED <<cols, rows, steps, mpass, ret, no_work_done>>

CopyVelocityToMotion ==
    /\ pc = "copy"
    /\ grid' = copy_velocity_to_motion(grid)
    /\ mpass' = 0
    /\ pc' = "motion"
    /\ UNCHANGED <<cols, rows, steps, vpass, ret, idx, no_work_done>>

\* Mutant: the loop ignores what motion_step returns
MotionStepNoBreak ==
    /\ pc = "motion"
    /\ mpass < MotionCap
    /\ LET st == motion_step(grid)
       IN /\ grid' = st.grid
          /\ ret' = st.no_work_done
    /\ pc' = IF mpass + 1 >= MotionCap THEN "idle" ELSE "motion"
    /\ mpass' = mpass + 1
    /\ UNCHANGED <<cols, rows, steps, vpass, idx, no_work_done>>

\* for _ in 0..10 { if self.motion_step() { break; } }
MotionStep ==
    /\ pc = "motion"
    /\ mpass < MotionCap
    /\ LET st == motion_step(grid)
       IN /\ grid' = st.grid
          /\ ret' = st.no_work_done
          /\ pc' = IF st.no_work_done \/ mpass + 1 >= MotionCap
                   THEN "idle" ELSE "motion"
    /\ mpass' = mpass + 1
    /\ UNCHANGED <<cols, rows, steps, vpass, idx, no_work_done>>

Next ==
    \/ GravityStep
    \/ PushVisit
    \/ FrictionVisit
    \/ CopyVelocityToMotion
    \/ MotionStep

Spec == Init /\ [][Next]_vars

-----------------------------------------------------------------------------
(* SpecVisit: the motion loop of step(), one action per visit of             *)
(* motion_step's loop.  It starts where step() enters the loop: after        *)
(* copy_velocity_to_motion, so air has no motion.                            *)

MotionCell(m, s) == Cell(m, m, s)

SandMotions ==
    { <<Dec(75, 100), Dec(75, 100)>>,
      <<-Dec(75, 100), -Dec(75, 100)>>,
      <<0, Dec(25, 10)>>,
      <<Dec(25, 10), Dec(5, 10)>>,
      <<0, -Dec(11, 1)>>,
      <<Dec(5, 10), Dec(5, 10)>> }

WaterMotions ==
    { <<-Dec(75, 100), Dec(75, 100)>>,
      <<-Dec(25, 10), 0>>,
      <<Dec(1, 1), 0>>,
      <<0, -Dec(1, 1)>>,
      <<Dec(6, 10), -Dec(9, 10)>> }

InitVisit ==
    /\ cols \in 1 .. MaxCols
    /\ rows \in 1 .. MaxRows
    /\ grid \in Boards(cols, rows,
                       { MotionCell(m, "Sand") : m \in SandMotions },
                       { MotionCell(m, "Water") : m \in WaterMotions })
    /\ pc = "visit"
    /\ steps = 1
    /\ vpass = VelocityPasses
    /\ mpass = 0
    /\ ret = FALSE
    /\ idx = 1
    /\ no_work_done = TRUE

\* if vec2_square_len(cell.motion) < 1.0 { continue }
VisitSkip ==
    /\ pc = "visit"
    /\ idx <= NumCells
    /\ ~Acts(grid, RowMajor(idx))
    /\ idx' = idx + 1
    /\ UNCHANGED <<cols, rows, grid, pc, steps, vpass, mpass, ret, no_work_done>>

\* the rest of the loop body
VisitAct ==
    /\ pc = "visit"
    /\ idx <= NumCells
    /\ Acts(grid, RowMajor(idx))
    /\ no_work_done' = FALSE
    /\ grid' = MotionVisit(grid, RowMajor(idx))
    /\ idx' = idx + 1
    /\ UNCHANGED <<cols, rows, pc, steps, vpass, mpass, ret>>

\* motion_step returns no_work_done; step() breaks, or calls it again
MotionReturn ==
    /\ pc = "visit"
    /\ idx > NumCells
    /\ ret' = no_work_done
    /\ mpass' = mpass + 1
    /\ pc' = IF no_work_done \/ mpass + 1 >= MotionCap THEN "idle" ELSE "visit"
    /\ idx' = 1
    /\ no_work_done' = TRUE
    /\ UNCHANGED <<cols, rows, grid, steps, vpass>>

NextVisit == VisitSkip \/ VisitAct \/ MotionReturn

SpecVisit == InitVisit /\ [][NextVisit]_vars

-----------------------------------------------------------------------------
(* SpecFriction: the friction sub-step of one visit of velocity_step, from   *)
(* boards whose velocities are whole numbers, for which the arithmetic of    *)
(* the sub-step is exact.                                                    *)

FrictionCells ==
    { Cell(v, Zero2, s) :
        v \in { <<Dec(1, 1), 0>>, <<Dec(3, 1), -Dec(2, 1)>> }, s \in Species }

FrictionOthers ==
    { Cell(<<-Dec(1, 1), Dec(2, 1)>>, Zero2, s) : s \in Species }

InitFriction ==
    /\ cols = FricDim
    /\ rows = FricDim
    /\ grid \in Boards(cols, rows, FrictionCells, FrictionOthers)
    /\ pc = "friction"
    /\ steps = 1
    /\ vpass = 0
    /\ mpass = 0
    /\ ret = FALSE
    /\ idx \in 1 .. NumCells
    /\ no_work_done = TRUE

SpecFriction == InitFriction /\ [][FrictionVisit]_vars

-----------------------------------------------------------------------------
(* SpecPush: the pushing sub-step of one visit of velocity_step, from boards *)
(* drawn at the start of a visit.                                            *)

PushCells ==
    { Cell(v, m, s) :
        v \in { <<Dec(16, 10), 0>>, <<0, -Dec(32, 10)>>, <<Dec(7, 10), Dec(4, 10)>> },
        m \in { Zero2, <<Dec(6, 10), Dec(3, 10)>> },
        s \in Species }

PushOthers ==
    { Cell(v, m, s) :
        v \in { <<-Dec(16, 10), 0>>, <<0, Dec(16, 10)>> },
        m \in { Zero2, <<0, -Dec(5, 10)>> },
        s \in Species }

InitPush ==
    /\ cols \in 1 .. MaxCols
    /\ rows \in 1 .. MaxRows
    /\ grid \in Boards(cols, rows, PushCells, PushOthers)
    /\ pc = "push"
    /\ steps = 1
    /\ vpass = 0
    /\ mpass = 0
    /\ ret = FALSE
    /\ idx \in 1 .. NumCells
    /\ no_work_done = TRUE

SpecPush == InitPush /\ [][PushVisit]_vars

-----------------------------------------------------------------------------
(* Quantities the properties speak of *)

\* The row-major position (1-based) of a location
Index(loc) == loc[2] * cols + loc[1] + 1

\* How many slots of g hold species s
Count(g, s) == Cardinality({loc \in DOMAIN g : g[loc].species = s})

\* How many slots of g hold a cell of species s and velocity v
CountSV(g, s, v) ==
    Cardinality({loc \in DOMAIN g : g[loc].species = s /\ g[loc].velocity = v})

Velocities(g) == {g[loc].velocity : loc \in DOMAIN g}

BelowThreshold(g) ==
    \A loc \in DOMAIN g : vec2_square_len(g[loc].motion) < Dec(1, 1)

\* How many times motion m can still be decremented by its unit offset before
\* its squared length is below 1.0
RECURSIVE ActsLeft(_)
ActsLeft(m) ==
    IF vec2_square_len(m) < Dec(1, 1) THEN 0
    ELSE 1 + ActsLeft(vec2_sub(m, ToF(velocity_to_offset(m))))

RECURSIVE RemainingFrom(_, _)
RemainingFrom(g, i) ==
    IF i > NumCells THEN 0
    ELSE ActsLeft(g[RowMajor(i)].motion) + RemainingFrom(g, i + 1)

\* The decrements all cells of g can still make
Remaining(g) == RemainingFrom(g, 1)

\* Sum over the grid of weight * velocity, exact, in units of 1 / Q^2
RECURSIVE CollisionMomentumFrom(_, _)
CollisionMomentumFrom(g, i) ==
    IF i > NumCells THEN Zero2
    ELSE LET c == g[RowMajor(i)]
             w == CollisionMass(c.species)
         IN vec2_add(<<w * c.velocity[1], w * c.velocity[2]>>,
                     CollisionMomentumFrom(g, i + 1))

CollisionMomentum(g) == CollisionMomentumFrom(g, 1)

RECURSIVE MomentumFrom(_, _)
MomentumFrom(g, i) ==
    IF i > NumCells THEN Zero2
    ELSE LET c == g[RowMajor(i)]
             w == get_mass(c.species)
         IN vec2_add(<<w * c.velocity[1], w * c.velocity[2]>>,
                     MomentumFrom(g, i + 1))

\* Sum over the grid of mass * velocity, exact, in units of 1 / Q^2
Momentum(g) == MomentumFrom(g, 1)

\* The absolute value of the larger component
Max2(v) == IF Abs(v[1]) > Abs(v[2]) THEN Abs(v[1]) ELSE Abs(v[2])

Sgn(a) == IF a > 0 THEN 1 ELSE IF a < 0 THEN -1 ELSE 0

\* The unit offset along the dominant axis of m, y on ties
Dominant(m) ==
    IF Abs(m[1]) > Abs(m[2]) THEN <<Sgn(m[1]), 0>> ELSE <<0, Sgn(m[2])>>

\* The slot the loop is at, and where the cell there is pushed or moved to
Here == RowMajor(idx)

PushDest == vec2_add(Here, velocity_to_offset(grid[Here].velocity))

MoveDest == vec2_add(Here, velocity_to_offset(grid[Here].motion))

\* The cell at the loop's slot with its motion decremented by its unit offset
Decremented ==
    [grid[Here] EXCEPT !.motion =
        vec2_sub(grid[Here].motion, ToF(velocity_to_offset(grid[Here].motion)))]

\* step() has returned
Returned == pc = "idle" /\ steps > 0

AirAtRest(g) ==
    \A loc \in DOMAIN g : g[loc].species = "Air" => g[loc].motion = Zero2

ExistingNeighbors(loc) ==
    Cardinality({k \in 1 .. 4 : Present(neighbors(loc)[k])})

-----------------------------------------------------------------------------
(* C1 *)

\* C1: a motion_step pass leaves the multiset of species over the grid's
\* slots as it was: no cell is duplicated or lost, whether destinations are
\* in bounds or not.
C1_SwapKeepsSpecies ==
    [][MotionStep => \A s \in Species : Count(grid', s) = Count(grid, s)]_vars

\* A pass has relocated a cell of a board that holds sand or water.
C1_Witness ==
    /\ pc \in {"motion", "idle"}
    /\ mpass >= 1
    /\ ~ret
    /\ Count(grid, "Air") < NumCells

-----------------------------------------------------------------------------
(* C2 *)

-----------------------------------------------------------------------------
(* C3 *)

\* C3: a visit that acts on a cell whose destination is outside the grid
\* writes the cell's own slot only: the cell stays, its species and velocity
\* unchanged and its motion reduced by the unit offset, and every other slot
\* is unchanged.
C3_BoundarySafety ==
    [][VisitAct /\ ~Present(MoveDest) =>
        grid' = [grid EXCEPT ![Here] = Decremented]]_vars

\* On a board of one slot, whose every destination is outside the grid, the
\* cell has been acted on.
C3_Witness ==
    /\ pc = "visit"
    /\ NumCells = 1
    /\ idx = 2
    /\ ~no_work_done

-----------------------------------------------------------------------------
(* C4 *)

\* The arithmetic of the pushing sub-step is exact for these pairs: no
\* sub-grid offset, velocities in multiples of 1.6, and masses whose sum has
\* an exact reciprocal
ExactPush ==
    /\ grid[Here].motion = Zero2
    /\ grid[PushDest].motion = Zero2
    /\ \A loc \in {Here, PushDest} : \A k \in 1 .. 2 :
           grid[loc].velocity[k] % Dec(16, 10) = 0
    /\ \/ grid[Here].species = grid[PushDest].species
          /\ grid[Here].species \in {"Air", "Sand"}
       \/ {grid[Here].species, grid[PushDest].species} = {"Sand", "Water"}

\* C4: in the pushing sub-step with an existing destination, the impulses
\* given to the two cells cancel once each is scaled by its cell's collision
\* mass (mass x solidity), so the summed momentum so weighted is as before:
\* exactly where the arithmetic is exact, and otherwise to within its
\* rounding (a thousandth of the pair's momentum, and four units); no other
\* cell's velocity changes.
C4_PushConservesMomentum ==
    [][PushVisit /\ Present(PushDest) =>
        LET dev == Max2(vec2_sub(CollisionMomentum(grid'),
                                 CollisionMomentum(grid)))
            mag == CollisionMass(grid[Here].species) * Max2(grid[Here].velocity)
                   + CollisionMass(grid[PushDest].species)
                       * Max2(grid[PushDest].velocity)
        IN /\ dev * 1000 <= mag + 4000 * Q
           /\ ExactPush => dev = 0
           /\ \A loc \in Locs \ {Here, PushDest} : grid'[loc] = grid[loc]]_vars

\* Sand has pushed water, or water sand, and their velocities have changed.
C4_Witness ==
    /\ pc = "friction"
    /\ \E loc \in Locs : \E k \in 1 .. 4 :
          LET n == neighbors(loc)[k]
          IN /\ Present(n)
             /\ grid[loc].species = "Sand"
             /\ grid[n].species = "Water"
             /\ grid[loc].velocity[1] % Dec(16, 10) # 0
                  \/ grid[loc].velocity[2] % Dec(16, 10) # 0

-----------------------------------------------------------------------------
(* C5 *)

\* The change of the grid's mass-weighted momentum, in units of 1 / Q^2
MomentumChange == vec2_sub(Momentum(grid'), Momentum(grid))

\* C5 as stated: the friction sub-step of a cell with non-zero velocity
\* strictly decreases the grid's total mass-weighted momentum: along each
\* axis on which the cell moves, the momentum the cell sheds is not fully
\* recovered by its neighbours.
C5_FrictionRemovesMomentum ==
    [][FrictionVisit /\ grid[Here].velocity # Zero2 =>
        \A k \in 1 .. 2 :
            grid[Here].velocity[k] # 0 =>
                Sgn(grid[Here].velocity[k]) * MomentumChange[k] < 0]_vars

\* C5 as amended: the friction sub-step changes the grid's total
\* mass-weighted momentum by minus a quarter of frictionCoeff x mass x
\* velocity for each absent neighbour: nothing for an interior cell, whose
\* four neighbours receive all the cell sheds, and a strict loss only for a
\* cell on an edge with non-zero velocity.
C5_FrictionLosesAbsentShare ==
    [][FrictionVisit =>
        LET c == grid[Here]
            shed == FMul(get_friction_coeff(c.species), get_mass(c.species))
            absent == 4 - ExistingNeighbors(Here)
        IN /\ 4 * MomentumChange[1] = -(absent * shed * c.velocity[1])
           /\ 4 * MomentumChange[2] = -(absent * shed * c.velocity[2])]_vars

\* Friction has been applied to an interior cell, and it has velocity left.
C5_Witness ==
    /\ pc = "push"
    /\ idx > 1
    /\ ExistingNeighbors(RowMajor(idx - 1)) = 4
    /\ grid[RowMajor(idx - 1)].velocity # Zero2

-----------------------------------------------------------------------------
(* C6 *)

\* Species and motion of every slot are as before
SameSpeciesAndMotion ==
    \A loc \in Locs :
        /\ grid'[loc].species = grid[loc].species
        /\ grid'[loc].motion = grid[loc].motion

\* The cells keep their velocities, wherever they are
SameVelocities ==
    \A s \in Species : \A v \in Velocities(grid) \cup Velocities(grid') :
        CountSV(grid', s, v) = CountSV(grid, s, v)

\* C6: a call of step() makes one gravity pass, then 4 velocity passes (each
\* visiting every slot once, pushing then friction), then one
\* copy-velocity-to-motion pass, then between 1 and 10 motion passes; the
\* motion passes stop at the first that reports no work, and none changes a
\* velocity as a gravity or velocity pass would.
C6_StepOrder ==
    [][/\ pc = "idle" =>
            /\ steps' = steps + 1
            /\ pc' = "push" /\ vpass' = 0 /\ idx' = 1
            /\ SameSpeciesAndMotion
            /\ \A loc \in Locs :
                  grid'[loc].velocity =
                      vec2_add(grid[loc].velocity, get_gravity(grid[loc].species))
       /\ pc = "push" =>
            /\ pc' = "friction" /\ vpass' = vpass /\ idx' = idx
            /\ SameSpeciesAndMotion
       /\ pc = "friction" =>
            /\ SameSpeciesAndMotion
            /\ IF idx < NumCells
               THEN pc' = "push" /\ vpass' = vpass /\ idx' = idx + 1
               ELSE /\ vpass' = vpass + 1 /\ idx' = 1
                    /\ pc' = IF vpass' < 4 THEN "push" ELSE "copy"
       /\ pc = "copy" =>
            /\ vpass = 4
            /\ pc' = "motion" /\ mpass' = 0
            /\ SameVelocities
       /\ pc = "motion" =>
            /\ mpass' = mpass + 1
            /\ mpass' <= 10
            /\ pc' = IF ret' \/ mpass' = 10 THEN "idle" ELSE "motion"
            /\ SameVelocities
       /\ pc \in {"push", "friction", "copy", "motion"} => steps' = steps
      ]_vars

\* step() has returned from a loop that ran several motion passes and
\* stopped before the cap, at the first pass that reported no work.
C6_Witness ==
    /\ Returned
    /\ ret
    /\ mpass \in 3 .. 9

-----------------------------------------------------------------------------
(* C7 *)

\* C7: when a visit acts on a cell, the unit offset lies along the dominant
\* axis of its motion (y on ties) with the sign of that component, which is
\* not zero; the cell, in its destination slot or, with none, in its own, has
\* its motion less that offset, and the squared length of its motion is
\* strictly smaller than before.
C7_ActReducesMotion ==
    [][VisitAct =>
        LET m == grid[Here].motion
            o == Dominant(m)
            m2 == vec2_sub(m, ToF(o))
            dest == vec2_add(Here, o)
            at == IF Present(dest) THEN dest ELSE Here
        IN /\ o # Zero2
           /\ grid'[at] = [grid[Here] EXCEPT !.motion = m2]
           /\ vec2_square_len(m2) < vec2_square_len(m)
           /\ ActsLeft(m2) = ActsLeft(m) - 1]_vars

\* A cell whose motion was a tie, 0.75 on both axes, has been acted on: the
\* y-axis lost one unit.
C7_Witness ==
    /\ pc = "visit"
    /\ ~no_work_done
    /\ \E loc \in Locs : grid[loc].motion = <<Dec(75, 100), -Dec(25, 100)>>

-----------------------------------------------------------------------------
(* C8 *)

-----------------------------------------------------------------------------
(* C9 *)

-----------------------------------------------------------------------------
(* C10 *)

\* C10: after copy_velocity_to_motion and after every motion pass, every air
\* cell has zero motion, whatever its velocity and its motion were; and the
\* motion passes do not change a grid that holds only air.
C10_AirAtRest ==
    [][/\ CopyVelocityToMotion \/ MotionStep => AirAtRest(grid')
       /\ MotionStep /\ Count(grid, "Air") = NumCells => grid' = grid]_vars

\* Motion passes have run on a board where air has velocity, and where a cell
\* that is not air has swapped with air.
C10_Witness ==
    /\ pc \in {"motion", "idle"}
    /\ mpass >= 1
    /\ ~ret
    /\ \E loc \in Locs : grid[loc].species = "Air" /\ grid[loc].velocity # Zero2
    /\ \E loc \in Locs : grid[loc].species # "Air"

====
